---------------------------- MODULE Spec2Model ----------------------------
(***************************************************************************)
(* A model of internal/version/version.go of the dl wrapper: Run, install, *)
(* the archive unpackers, verifySHA256, copyFromURL, goroot and dedupEnv.  *)
(*                                                                         *)
(* Go strings are TLA+ strings (sequences of characters): Len, SubSeq and  *)
(* \o are the only primitives used on them.  The file system is a function *)
(* from cleaned absolute paths to nodes; the network is a nondeterministic *)
(* choice, made at each request, of what the server answers.               *)
(***************************************************************************)
EXTENDS Integers, Sequences, FiniteSets, TLC

(***************************************************************************)
(* Bounds of the model.                                                    *)
(***************************************************************************)
\* Invocations of the wrapper program made one after the other.
MaxRuns == 2
\* Length of the environment lists handed to dedupEnv.
MaxEnvLen == 3
\* Number of entries of the archives handed to the unpackers.
MaxEntries == 2

(***************************************************************************)
(* strings: the functions of package strings the program uses.             *)
(***************************************************************************)
Ch(s, i) == SubSeq(s, i, i)

HasPrefix(s, p) == Len(p) <= Len(s) /\ SubSeq(s, 1, Len(p)) = p

HasSuffix(s, p) == Len(p) <= Len(s) /\ SubSeq(s, Len(s) - Len(p) + 1, Len(s)) = p

\* strings.Index: the 0-based index of the first occurrence, -1 when absent.
Index(s, sub) ==
    LET hits == {i \in 0..(Len(s) - Len(sub)) : SubSeq(s, i + 1, i + Len(sub)) = sub}
    IN  IF hits = {} THEN -1 ELSE CHOOSE i \in hits : \A j \in hits : i <= j

\* The 0-based index of the last occurrence, -1 when absent.
LastIndex(s, sub) ==
    LET hits == {i \in 0..(Len(s) - Len(sub)) : SubSeq(s, i + 1, i + Len(sub)) = sub}
    IN  IF hits = {} THEN -1 ELSE CHOOSE i \in hits : \A j \in hits : i >= j

Contains(s, sub) == Index(s, sub) >= 0

TrimPrefix(s, p) == IF HasPrefix(s, p) THEN SubSeq(s, Len(p) + 1, Len(s)) ELSE s

UpperLetters == "ABCDEFGHIJKLMNOPQRSTUVWXYZ"
LowerLetters == "abcdefghijklmnopqrstuvwxyz"

LowerCh(c) ==
    IF Contains(UpperLetters, c) /\ Len(c) = 1
    THEN Ch(LowerLetters, Index(UpperLetters, c) + 1)
    ELSE c

RECURSIVE ToLower(_)
ToLower(s) == IF s = "" THEN "" ELSE LowerCh(Ch(s, 1)) \o ToLower(SubSeq(s, 2, Len(s)))

IsSpace(c) == c \in {" ", "\t", "\n", "\r"}

RECURSIVE TrimLeft(_)
TrimLeft(s) == IF s /= "" /\ IsSpace(Ch(s, 1)) THEN TrimLeft(SubSeq(s, 2, Len(s))) ELSE s

RECURSIVE TrimRight(_)
TrimRight(s) ==
    IF s /= "" /\ IsSpace(Ch(s, Len(s))) THEN TrimRight(SubSeq(s, 1, Len(s) - 1)) ELSE s

TrimSpace(s) == TrimRight(TrimLeft(s))

(***************************************************************************)
(* path/filepath: lexical path processing.  goos selects the separator:    *)
(* on windows both / and \ separate and \ is written, elsewhere only /.    *)
(* Volume names (C:) are not modelled: every path of the model is rooted   *)
(* at a separator.                                                         *)
(***************************************************************************)
Separator(goos) == IF goos = "windows" THEN "\\" ELSE "/"

ListSeparator(goos) == IF goos = "windows" THEN ";" ELSE ":"

IsSep(goos, c) == c = "/" \/ (goos = "windows" /\ c = "\\")

\* The elements of p between separators (empty elements included).
RECURSIVE SplitPath(_, _, _, _)
SplitPath(goos, p, cur, acc) ==
    IF p = "" THEN Append(acc, cur)
    ELSE IF IsSep(goos, Ch(p, 1))
         THEN SplitPath(goos, SubSeq(p, 2, Len(p)), "", Append(acc, cur))
         ELSE SplitPath(goos, SubSeq(p, 2, Len(p)), cur \o Ch(p, 1), acc)

\* filepath.Clean's treatment of the elements: "" and "." vanish, ".." removes
\* the element before it, is dropped at the root and kept at the head of a
\* relative path.
RECURSIVE CleanElems(_, _, _)
CleanElems(elems, rooted, acc) ==
    IF elems = <<>> THEN acc
    ELSE LET e == Head(elems)
             rest == Tail(elems)
         IN  IF e = "" \/ e = "." THEN CleanElems(rest, rooted, acc)
             ELSE IF e = ".."
                  THEN IF acc /= <<>> /\ acc[Len(acc)] /= ".."
                       THEN CleanElems(rest, rooted, SubSeq(acc, 1, Len(acc) - 1))
                       ELSE IF rooted THEN CleanElems(rest, rooted, acc)
                            ELSE CleanElems(rest, rooted, Append(acc, e))
                  ELSE CleanElems(rest, rooted, Append(acc, e))

RECURSIVE JoinWith(_, _)
JoinWith(elems, sep) ==
    IF elems = <<>> THEN ""
    ELSE IF Len(elems) = 1 THEN elems[1]
         ELSE elems[1] \o sep \o JoinWith(Tail(elems), sep)

Clean(goos, p) ==
    IF p = "" THEN "."
    ELSE LET rooted == IsSep(goos, Ch(p, 1))
             body == JoinWith(CleanElems(SplitPath(goos, p, "", <<>>), rooted, <<>>),
                              Separator(goos))
         IN  IF rooted THEN Separator(goos) \o body
             ELSE IF body = "" THEN "." ELSE body

\* filepath.Join: the non-empty elements joined by the separator, cleaned.
Join(goos, elems) ==
    LET ne == SelectSeq(elems, LAMBDA e : e /= "")
    IN  IF ne = <<>> THEN "" ELSE Clean(goos, JoinWith(ne, Separator(goos)))

\* filepath.FromSlash.
RECURSIVE FromSlash(_, _)
FromSlash(goos, s) ==
    IF s = "" THEN ""
    ELSE (IF Ch(s, 1) = "/" THEN Separator(goos) ELSE Ch(s, 1))
         \o FromSlash(goos, SubSeq(s, 2, Len(s)))

\* The index (1-based) of the last separator of p, 0 when there is none.
LastSep(goos, p) ==
    LET hits == {i \in 1..Len(p) : IsSep(goos, Ch(p, i))}
    IN  IF hits = {} THEN 0 ELSE CHOOSE i \in hits : \A j \in hits : i >= j

\* filepath.Dir: all but the last element, cleaned.
Dir(goos, p) == Clean(goos, SubSeq(p, 1, LastSep(goos, p)))

\* path.Base on a URL: the text after the last slash.
Base(url) == SubSeq(url, LastIndex(url, "/") + 2, Len(url))

\* Whether cleaned path p is dir itself or lies below it.
Within(goos, dir, p) == p = dir \/ HasPrefix(p, dir \o Separator(goos))


(***************************************************************************)
(* Program constants.                                                      *)
(***************************************************************************)
\* The version each per-version main passes to Run; go1.11 is one of them.
Version == "go1.11"

\* runtime.GOARCH of the build.
GOARCH == "amd64"

unpackedOkay == ".unpacked-success"

StatusOK == 200
StatusNotFound == 404
StatusInternalServerError == 500

(***************************************************************************)
(* The file system: a function from cleaned absolute paths to nodes.       *)
(***************************************************************************)
DirNode == [kind |-> "dir", data |-> ""]

FileNode(data) == [kind |-> "file", data |-> data]

Exists(fs, p) == p \in DOMAIN fs

IsDirAt(fs, p) == p \in DOMAIN fs /\ fs[p].kind = "dir"

IsFileAt(fs, p) == p \in DOMAIN fs /\ fs[p].kind = "file"

\* p and every directory above it.
RECURSIVE Ancestors(_, _)
Ancestors(goos, p) ==
    LET d == Dir(goos, p) IN IF d = p THEN {p} ELSE {p} \cup Ancestors(goos, d)

\* os.MkdirAll: p and its missing ancestors become directories; an error, and
\* nothing created, when p or an ancestor is a file.
MkdirAll(goos, fs, p) ==
    LET anc == Ancestors(goos, p)
    IN  IF \E q \in anc : IsFileAt(fs, q)
        THEN [fs |-> fs, err |-> "notdir"]
        ELSE [fs |-> [q \in DOMAIN fs \cup anc |->
                        IF q \in DOMAIN fs THEN fs[q] ELSE DirNode],
              err |-> ""]

\* os.OpenFile(p, O_CREATE|O_TRUNC) followed by the writing of data and Close:
\* an error when p is a directory or its parent is no directory.
CreateFile(goos, fs, p, data) ==
    IF IsDirAt(fs, p) \/ ~IsDirAt(fs, Dir(goos, p))
    THEN [fs |-> fs, err |-> "open"]
    ELSE [fs |-> [q \in DOMAIN fs \cup {p} |-> IF q = p THEN FileNode(data) ELSE fs[q]],
          err |-> ""]

\* os.Remove of a file.
RemoveFile(fs, p) == [q \in DOMAIN fs \ {p} |-> fs[q]]

(***************************************************************************)
(* verifySHA256.  crypto/sha256 is modelled as an injective encoding of    *)
(* the contents (no collisions): a leading byte, then each character's     *)
(* code.  A digest is a sequence of nibbles; fmt's %x writes each nibble   *)
(* as a lowercase hexadecimal digit.                                       *)
(***************************************************************************)
CodeAlphabet == "ABCDEFGHIJKLMNOPQRSTUVWXYZabcdefghijklmnopqrstuvwxyz0123456789 !./-_"

RECURSIVE Sha256Tail(_)
Sha256Tail(data) ==
    IF data = "" THEN <<>>
    ELSE LET c == Index(CodeAlphabet, Ch(data, 1)) + 1
         IN  <<c \div 16, c % 16>> \o Sha256Tail(SubSeq(data, 2, Len(data)))

Sha256Sum(data) == <<12, 10>> \o Sha256Tail(data)

HexDigits == "0123456789abcdef"

\* fmt.Sprintf("%x", sum)
RECURSIVE HexLower(_)
HexLower(sum) ==
    IF sum = <<>> THEN "" ELSE Ch(HexDigits, sum[1] + 1) \o HexLower(Tail(sum))

\* A variant of verifySHA256 that folds the case of both strings.
VerifySHA256FoldCase(fs, file, wantHex) ==
    IF ~IsFileAt(fs, file) THEN "io"
    ELSE IF ToLower(HexLower(Sha256Sum(fs[file].data))) /= ToLower(wantHex)
         THEN "checksum" ELSE ""

\* A variant of verifySHA256 that accepts every file it can read.
VerifySHA256Lax(fs, file, wantHex) ==
    IF ~IsFileAt(fs, file) THEN "io" ELSE ""

\* verifySHA256: "" (nil), "io" (the file cannot be opened and read) or
\* "checksum" (the digest is not wantHex).
VerifySHA256(fs, file, wantHex) ==
    IF ~IsFileAt(fs, file) THEN "io"
    ELSE IF HexLower(Sha256Sum(fs[file].data)) /= wantHex THEN "checksum" ELSE ""

(***************************************************************************)
(* The archive unpackers.  An archive is the sequence of its entries, as   *)
(* archive/tar and archive/zip deliver them: name, type ("reg", "dir" or   *)
(* "other"), the size its header declares and the bytes the reader yields. *)
(***************************************************************************)
Entry(name, typ, data) == [name |-> name, typ |-> typ, size |-> Len(data), data |-> data]

\* A variant of validRelPath that accepts everything.
ValidRelPathLax(p) == TRUE

validRelPath(p) ==
    ~(p = "" \/ Contains(p, "\\") \/ HasPrefix(p, "/") \/ Contains(p, "../"))

\* One iteration of unpackTarGz's loop on entry e.  st holds the file system,
\* the madeDir set and the error ("" while there is none).
UnpackTarEntry(goos, targetDir, e, st) ==
    IF ~validRelPath(e.name) THEN [st EXCEPT !.err = "invalid name"]
    ELSE LET rel == FromSlash(goos, TrimPrefix(e.name, "go/"))
             abs == Join(goos, <<targetDir, rel>>)
         IN  CASE e.typ = "reg" ->
                    LET dir == Dir(goos, abs)
                        mk  == IF dir \in st.madeDir
                               THEN [fs |-> st.fs, err |-> ""]
                               ELSE MkdirAll(goos, st.fs, dir)
                        wr  == CreateFile(goos, mk.fs, abs, e.data)
                    IN  IF mk.err /= "" THEN [st EXCEPT !.err = "mkdir"]
                        ELSE IF wr.err /= ""
                             THEN [st EXCEPT !.fs = mk.fs,
                                             !.madeDir = @ \cup {dir},
                                             !.err = "open"]
                             ELSE [fs |-> wr.fs,
                                   madeDir |-> st.madeDir \cup {dir},
                                   err |-> IF Len(e.data) /= e.size
                                           THEN "short write" ELSE ""]
               [] e.typ = "dir" ->
                    LET mk == MkdirAll(goos, st.fs, abs)
                    IN  IF mk.err /= "" THEN [st EXCEPT !.err = "mkdir"]
                        ELSE [fs |-> mk.fs, madeDir |-> st.madeDir \cup {abs}, err |-> ""]
               [] OTHER -> [st EXCEPT !.err = "unsupported type"]

\* archive/zip: an entry is a directory when its mode says so, which a name
\* ending in a slash implies.
ZipIsDir(e) == e.typ = "dir" \/ HasSuffix(e.name, "/")

\* One iteration of unpackZip's loop on entry e.
UnpackZipEntry(goos, targetDir, e, st) ==
    LET name == TrimPrefix(e.name, "go/")
        outpath == Join(goos, <<targetDir, name>>)
    IN  IF ZipIsDir(e)
        THEN LET mk == MkdirAll(goos, st.fs, outpath)
             IN  IF mk.err /= "" THEN [st EXCEPT !.err = "mkdir"]
                 ELSE [st EXCEPT !.fs = mk.fs]
        ELSE LET mk == MkdirAll(goos, st.fs, Dir(goos, outpath))
                 wr == CreateFile(goos, mk.fs, outpath, e.data)
             IN  IF mk.err /= "" THEN [st EXCEPT !.err = "mkdir"]
                 ELSE IF wr.err /= "" THEN [st EXCEPT !.fs = mk.fs, !.err = "open"]
                      ELSE [st EXCEPT !.fs = wr.fs]

\* The format unpackArchive selects from the archive file's name.
ArchiveFormat(archiveFile) ==
    IF HasSuffix(archiveFile, ".zip") THEN "zip"
    ELSE IF HasSuffix(archiveFile, ".tar.gz") THEN "tar.gz"
         ELSE "unsupported"

\* A variant of the unpackers that writes a tar entry of any other type as
\* a regular file.
UnpackEntryOtherAsFile(format, goos, targetDir, e, st) ==
    IF format = "zip" THEN UnpackZipEntry(goos, targetDir, e, st)
    ELSE UnpackTarEntry(goos, targetDir,
                        [e EXCEPT !.typ = IF @ \in {"reg", "dir"} THEN @ ELSE "reg"], st)

\* A variant of the unpackers that leaves the leading go/ on the names.
UnpackEntryKeepPrefix(format, goos, targetDir, e, st) ==
    IF format = "zip"
    THEN UnpackZipEntry(goos, targetDir, [e EXCEPT !.name = "go/" \o e.name], st)
    ELSE UnpackTarEntry(goos, targetDir, [e EXCEPT !.name = "go/" \o e.name], st)

UnpackEntry(format, goos, targetDir, e, st) ==
    IF format = "zip" THEN UnpackZipEntry(goos, targetDir, e, st)
    ELSE UnpackTarEntry(goos, targetDir, e, st)

\* The loop of unpackTarGz and of unpackZip: the entries in order, up to the
\* first error.
RECURSIVE UnpackLoop(_, _, _, _, _)
UnpackLoop(format, goos, targetDir, entries, st) ==
    IF entries = <<>> \/ st.err /= "" THEN st
    ELSE UnpackLoop(format, goos, targetDir, Tail(entries),
                    UnpackEntry(format, goos, targetDir, Head(entries), st))

\* unpackArchive on an archive whose container parses to `parsed`
\* ([ok, entries]; ok is FALSE when gzip, tar or zip cannot read the file).
UnpackArchive(goos, targetDir, archiveFile, parsed, fs) ==
    LET st0 == [fs |-> fs, madeDir |-> {}, err |-> ""]
    IN  IF ArchiveFormat(archiveFile) = "unsupported"
        THEN [st0 EXCEPT !.err = "unsupported archive file"]
        ELSE IF ~parsed.ok THEN [st0 EXCEPT !.err = "read"]
             ELSE UnpackLoop(ArchiveFormat(archiveFile), goos, targetDir,
                             parsed.entries, st0)

(***************************************************************************)
(* The environment.                                                        *)
(***************************************************************************)
\* The key of an entry dedupEnv takes as KEY=VALUE ("=" not first).
EnvKey(kv) == SubSeq(kv, 1, Index(kv, "="))

EnvValue(kv) == SubSeq(kv, Index(kv, "=") + 2, Len(kv))

WellFormed(kv) == Index(kv, "=") >= 1

FoldKey(caseInsensitive, k) == IF caseInsensitive THEN ToLower(k) ELSE k

\* A variant of dedupEnv's loop that keeps the first value of a key.
RECURSIVE DedupLoopKeepFirst(_, _, _, _)
DedupLoopKeepFirst(caseInsensitive, env, out, saw) ==
    IF env = <<>> THEN out
    ELSE LET kv == Head(env)
             k  == FoldKey(caseInsensitive, EnvKey(kv))
         IN  IF Index(kv, "=") < 1
             THEN DedupLoopKeepFirst(caseInsensitive, Tail(env), Append(out, kv), saw)
             ELSE IF k \in DOMAIN saw
                  THEN DedupLoopKeepFirst(caseInsensitive, Tail(env), out, saw)
                  ELSE DedupLoopKeepFirst(caseInsensitive, Tail(env), Append(out, kv),
                           [x \in DOMAIN saw \cup {k} |->
                               IF x = k THEN Len(out) + 1 ELSE saw[x]])

\* A variant of dedupEnv's loop that takes an entry with "=" first for one
\* with the empty key.
RECURSIVE DedupLoopEmptyKey(_, _, _, _)
DedupLoopEmptyKey(caseInsensitive, env, out, saw) ==
    IF env = <<>> THEN out
    ELSE LET kv == Head(env)
             k  == FoldKey(caseInsensitive, EnvKey(kv))
         IN  IF Index(kv, "=") < 0
             THEN DedupLoopEmptyKey(caseInsensitive, Tail(env), Append(out, kv), saw)
             ELSE IF k \in DOMAIN saw
                  THEN DedupLoopEmptyKey(caseInsensitive, Tail(env),
                                         [out EXCEPT ![saw[k]] = kv], saw)
                  ELSE DedupLoopEmptyKey(caseInsensitive, Tail(env), Append(out, kv),
                           [x \in DOMAIN saw \cup {k} |->
                               IF x = k THEN Len(out) + 1 ELSE saw[x]])

dedupEnvEmptyKey(caseInsensitive, env) ==
    DedupLoopEmptyKey(caseInsensitive, env, <<>>, <<>>)

\* The loop of dedupEnv: saw maps a key to its index in out.
RECURSIVE DedupLoop(_, _, _, _)
DedupLoop(caseInsensitive, env, out, saw) ==
    IF env = <<>> THEN out
    ELSE LET kv == Head(env)
             k  == FoldKey(caseInsensitive, EnvKey(kv))
         IN  IF Index(kv, "=") < 1
             THEN DedupLoop(caseInsensitive, Tail(env), Append(out, kv), saw)
             ELSE IF k \in DOMAIN saw
                  THEN DedupLoop(caseInsensitive, Tail(env),
                                 [out EXCEPT ![saw[k]] = kv], saw)
                  ELSE DedupLoop(caseInsensitive, Tail(env), Append(out, kv),
                           [x \in DOMAIN saw \cup {k} |->
                               IF x = k THEN Len(out) + 1 ELSE saw[x]])

dedupEnvKeepFirst(caseInsensitive, env) ==
    DedupLoopKeepFirst(caseInsensitive, env, <<>>, <<>>)

dedupEnv(caseInsensitive, env) == DedupLoop(caseInsensitive, env, <<>>, <<>>)

caseInsensitiveEnv(goos) == goos = "windows"

\* os.Getenv: the value of the first entry with the key (the keys of a
\* windows environment are compared without case), "" when there is none.
Getenv(goos, environ, key) ==
    LET hits == {i \in 1..Len(environ) :
                    /\ Index(environ[i], "=") >= 0
                    /\ FoldKey(goos = "windows", EnvKey(environ[i]))
                         = FoldKey(goos = "windows", key)}
    IN  IF hits = {} THEN ""
        ELSE EnvValue(environ[CHOOSE i \in hits : \A j \in hits : i <= j])

\* homedir: userHome is the HomeDir user.Current() gives ("" when the lookup
\* fails or the field is empty).
homedir(goos, environ, userHome) ==
    CASE goos = "plan9" -> [dir |-> "", err |-> "not yet supported"]
      [] goos = "windows" ->
            IF Getenv(goos, environ, "USERPROFILE") /= ""
            THEN [dir |-> Getenv(goos, environ, "USERPROFILE"), err |-> ""]
            ELSE [dir |-> "", err |-> "no home"]
      [] OTHER ->
            IF Getenv(goos, environ, "HOME") /= ""
            THEN [dir |-> Getenv(goos, environ, "HOME"), err |-> ""]
            ELSE IF userHome /= "" THEN [dir |-> userHome, err |-> ""]
                 ELSE [dir |-> "", err |-> "no home"]

\* A variant of goroot that prefers the home directory to GOPATH.
gorootHomeFirst(goos, environ, userHome, version) ==
    LET home == homedir(goos, environ, userHome)
    IN  IF home.err = ""
        THEN [dir |-> Join(goos, <<home.dir, "sdk", version>>), err |-> ""]
        ELSE IF Getenv(goos, environ, "GOPATH") /= ""
             THEN [dir |-> Join(goos, <<Getenv(goos, environ, "GOPATH"), "sdk", version>>),
                   err |-> ""]
             ELSE [dir |-> "", err |-> "failed to get home directory"]

goroot(goos, environ, userHome, version) ==
    IF Getenv(goos, environ, "GOPATH") /= ""
    THEN [dir |-> Join(goos, <<Getenv(goos, environ, "GOPATH"), "sdk", version>>),
          err |-> ""]
    ELSE LET home == homedir(goos, environ, userHome)
         IN  IF home.err /= "" THEN [dir |-> "", err |-> "failed to get home directory"]
             ELSE [dir |-> Join(goos, <<home.dir, "sdk", version>>), err |-> ""]

exe(goos) == IF goos = "windows" THEN ".exe" ELSE ""

versionArchiveURL(goos, version) ==
    LET ext  == IF goos = "windows" THEN ".zip" ELSE ".tar.gz"
        arch == IF goos = "linux" /\ GOARCH = "arm" THEN "armv6l" ELSE GOARCH
    IN  "https://dl.google.com/go/" \o version \o "." \o goos \o "-" \o arch \o ext

\* A variant of runGo that hands the appended environment on as it is.
RunGoCmdNoDedup(goos, root, osArgs, environ) ==
    LET bin     == Join(goos, <<root, "bin">>)
        newPath == IF Getenv(goos, environ, "PATH") /= ""
                   THEN bin \o ListSeparator(goos) \o Getenv(goos, environ, "PATH")
                   ELSE bin
    IN  [path |-> Join(goos, <<root, "bin", "go" \o exe(goos)>>),
         args |-> Tail(osArgs),
         env  |-> environ \o <<"GOROOT=" \o root, "PATH=" \o newPath>>]

\* What runGo hands to exec.Command and cmd.Env.
RunGoCmd(goos, root, osArgs, environ) ==
    LET bin     == Join(goos, <<root, "bin">>)
        newPath == IF Getenv(goos, environ, "PATH") /= ""
                   THEN bin \o ListSeparator(goos) \o Getenv(goos, environ, "PATH")
                   ELSE bin
    IN  [path |-> Join(goos, <<root, "bin", "go" \o exe(goos)>>),
         args |-> Tail(osArgs),
         env  |-> dedupEnv(caseInsensitiveEnv(goos),
                           environ \o <<"GOROOT=" \o root, "PATH=" \o newPath>>)]

(***************************************************************************)
(* The inputs of the model.                                                *)
(***************************************************************************)
\* The wrapper processes; Spec runs the invocations of process 1 one after
\* the other.
Procs == {1, 2}

\* os.Args of an invocation.
ArgVectors ==
    { <<Version, "download">>, <<Version>>, <<Version, "build", "./...">>,
      <<Version, "download", "-x">> }

\* The environments a behaviour starts in, with the HomeDir of the user
\* database.
Environs ==
    { <<"HOME=/h", "PATH=/p">>,
      <<"GOPATH=/g", "HOME=/h">>,
      <<"PATH=/p">>,
      <<"HOME=/h", "GOROOT=/a", "Path=/q", "GOROOT=/b", "PATH">>,
      <<"USERPROFILE=/w", "Path=/q", "goroot=/a">> }

UserHomes == {"", "/u"}

\* The bodies the server may deliver for the archive URL, and what the
\* archive reader makes of each: GOOD and EVIL!! are archives, the others not.
Bodies == {"GOOD", "JUNK", "EVIL!!"}

Delivered == Bodies \cup {"GO"}

ParseArchive(data) ==
    CASE data = "GOOD" ->
            [ok |-> TRUE,
             entries |-> <<Entry("go/bin/go", "reg", "ELF"), Entry("go/pkg/", "dir", "")>>]
      [] data = "EVIL!!" ->
            [ok |-> TRUE,
             entries |-> <<Entry("go/bin/go", "reg", "ELF"), Entry("../x", "reg", "X")>>]
      [] OTHER -> [ok |-> FALSE, entries |-> <<>>]

\* res.ContentLength: -1 when the server states none.
ContentLengths == {-1} \cup {Len(b) : b \in Bodies}

\* The answers to http.Head(goURL).
HeadResponses ==
    {[err |-> TRUE, status |-> 0, len |-> 0]}
    \cup {[err |-> FALSE, status |-> s, len |-> 0] :
             s \in {StatusNotFound, StatusInternalServerError}}
    \cup {[err |-> FALSE, status |-> StatusOK, len |-> n] : n \in ContentLengths}

\* The answers to copyFromURL's GET: the bytes io.Copy wrote before it
\* returned, and whether it returned an error.
GetResponses ==
    {[err |-> TRUE, status |-> 0, len |-> 0, data |-> "", copyErr |-> FALSE]}
    \cup {[err |-> FALSE, status |-> StatusInternalServerError, len |-> 0,
           data |-> "", copyErr |-> FALSE]}
    \cup {[err |-> FALSE, status |-> StatusOK, len |-> n, data |-> d, copyErr |-> ce] :
             n \in ContentLengths, d \in Delivered, ce \in BOOLEAN}

UpperCh(c) ==
    IF Contains(LowerLetters, c) /\ Len(c) = 1
    THEN Ch(UpperLetters, Index(LowerLetters, c) + 1)
    ELSE c

RECURSIVE ToUpper(_)
ToUpper(s) == IF s = "" THEN "" ELSE UpperCh(Ch(s, 1)) \o ToUpper(SubSeq(s, 2, Len(s)))

\* The texts the server may serve at goURL + ".sha256".
SidecarTexts ==
    {HexLower(Sha256Sum(b)) : b \in Bodies}
    \cup {ToUpper(HexLower(Sha256Sum("GOOD"))),
          "  " \o HexLower(Sha256Sum("GOOD")) \o "\n",
          ""}

\* The answers to slurpURLToString.
SidecarResponses ==
    {[err |-> TRUE, status |-> 0, text |-> ""],
     [err |-> FALSE, status |-> StatusNotFound, text |-> ""]}
    \cup {[err |-> FALSE, status |-> StatusOK, text |-> t] : t \in SidecarTexts}

\* How the delegate ends: it cannot be started, it exits with a code (8 bits
\* of it elsewhere, 32 on windows), or a signal kills it.
ChildOutcomes(g) ==
    {[kind |-> "startfail", code |-> 0]}
    \cup (IF g = "windows"
          THEN {[kind |-> "exit", code |-> c] : c \in {0, 1, 2, 255, 256, 1000}}
          ELSE {[kind |-> "signal", code |-> 0]}
               \cup {[kind |-> "exit", code |-> c] : c \in {0, 1, 2, 255}})

(***************************************************************************)
(* The state.                                                              *)
(***************************************************************************)
VARIABLES
    goos,       \* getOS() of the build
    environ,    \* os.Environ() of the invocations
    userHome,   \* user.Current().HomeDir, "" when there is none
    paths,      \* PathsOf the configuration, computed once
    fs,         \* the file system
    runs,       \* the invocations started so far
    pc,         \* pc[p]: where process p is in Run and install
    osArgs,     \* osArgs[p]: os.Args
    loc,        \* loc[p]: the locals of Run and install
    exitCode,   \* exitCode[p]: the exit status, -1 while running
    cmd,        \* cmd[p]: the command runGo started
    hist,       \* hist[p]: what the invocation has done so far
    unp,        \* the call of unpackArchive that SpecUnpack follows
    ded,        \* the call of dedupEnv that SpecEnv follows
    ver         \* the call of verifySHA256 that SpecVerify follows

procVars == <<runs, pc, osArgs, loc, exitCode, cmd, hist>>

callVars == <<unp, ded, ver>>

vars == <<goos, environ, userHome, paths, fs, runs, pc, osArgs, loc, exitCode, cmd, hist,
          unp, ded, ver>>

NoUnpack ==
    [pc |-> "off", targetDir |-> "", archiveFile |-> "", entries |-> <<>>, pos |-> 0,
     madeDir |-> {}, err |-> "", fs0 |-> <<>>]

NoDedup == [pc |-> "off", caseInsensitive |-> FALSE, env |-> <<>>, out |-> <<>>]

NoVerify == [pc |-> "off", file |-> "", wantHex |-> "", err |-> ""]

NoLoc == [root |-> "", goURL |-> "", archiveFile |-> "", contentLength |-> 0, wantSHA |-> ""]

NoCmd == [path |-> "", args |-> <<>>, env |-> <<>>]

NoHist ==
    [installCalled |-> FALSE, sentinelAtStart |-> FALSE, prevOK |-> FALSE,
     hadSentinel |-> FALSE, result |-> "none",
     nHead |-> 0, nGet |-> 0, nSide |-> 0, wrote |-> FALSE,
     headOK |-> FALSE, sizeOK |-> FALSE, shaOK |-> FALSE, unpackOK |-> FALSE,
     bodyLen |-> -1, rootErr |-> FALSE, statOK |-> FALSE,
     spawned |-> FALSE, child |-> "none", childCode |-> 0]

GOOSes == {"linux", "windows"}

\* What Run and install compute from the configuration alone: goroot's
\* result, the path of the sentinel, the URL of the archive and the path of
\* the archive file.
PathsOf(g, env, home) ==
    LET r == goroot(g, env, home, Version)
    IN  [root        |-> r,
         sentinel    |-> Join(g, <<r.dir, unpackedOkay>>),
         goURL       |-> versionArchiveURL(g, Version),
         archiveFile |-> Join(g, <<r.dir, Base(versionArchiveURL(g, Version))>>)]

Sentinel(p) == paths.sentinel

\* The status the operating system reports for os.Exit(code): its low 8 bits,
\* and on windows all 32 bits of it (written here as the signed number).
ExitStatus(code) == IF goos = "windows" THEN code ELSE code % 256

Init ==
    /\ goos \in GOOSes
    /\ environ \in Environs
    /\ userHome \in UserHomes
    /\ paths = PathsOf(goos, environ, userHome)
    /\ fs = [q \in {Separator(goos)} |-> DirNode]
    /\ runs = 0
    /\ pc = [p \in Procs |-> "idle"]
    /\ osArgs = [p \in Procs |-> <<>>]
    /\ loc = [p \in Procs |-> NoLoc]
    /\ exitCode = [p \in Procs |-> -1]
    /\ cmd = [p \in Procs |-> NoCmd]
    /\ hist = [p \in Procs |-> NoHist]
    /\ unp = NoUnpack
    /\ ded = NoDedup
    /\ ver = NoVerify

\* os.Exit(code), and log.Fatalf with code 1.
Exit(p, code) ==
    /\ pc' = [pc EXCEPT ![p] = "exited"]
    /\ exitCode' = [exitCode EXCEPT ![p] = ExitStatus(code)]

\* install returns err ("" is nil) to Run, which exits 0 or logs and exits 1.
InstallReturn(p, err, h) ==
    /\ Exit(p, IF err = "" THEN 0 ELSE 1)
    /\ hist' = [hist EXCEPT ![p] = [h EXCEPT !.result = IF err = "" THEN "ok" ELSE err,
                                             !.wrote = h.wrote \/ fs' /= fs]]

\* The invocation goes on to the step at label.
Goto(p, label, h) ==
    /\ pc' = [pc EXCEPT ![p] = label]
    /\ hist' = [hist EXCEPT ![p] = [h EXCEPT !.wrote = h.wrote \/ fs' /= fs]]
    /\ UNCHANGED exitCode

(***************************************************************************)
(* Run, up to the call of install or runGo.  A run that resolved no        *)
(* installation directory has no sentinel to look for: paths.sentinel is   *)
(* then the path of no file.                                               *)
(***************************************************************************)
\* Run's test of os.Args for the download command.
IsDownloadPrefix(a) == Len(a) >= 2 /\ a[2] = "download"

IsDownload(a) == Len(a) = 2 /\ a[2] = "download"

\* Run with sentinelSeen for the result of its os.Stat of the sentinel.
RunFrom(p, sentinelSeen) ==
    /\ pc[p] = "idle"
    /\ runs < MaxRuns
    /\ runs' = runs + 1
    /\ \E a \in ArgVectors :
        LET r == paths.root
            h == [NoHist EXCEPT !.sentinelAtStart = Exists(fs, paths.sentinel),
                                !.prevOK = hist[p].result = "ok"]
        IN  /\ osArgs' = [osArgs EXCEPT ![p] = a]
            /\ fs' = fs
            /\ cmd' = [cmd EXCEPT ![p] = NoCmd]
            /\ IF r.err /= ""
               THEN /\ loc' = [loc EXCEPT ![p] = NoLoc]
                    /\ hist' = [hist EXCEPT ![p] = [h EXCEPT !.rootErr = TRUE]]
                    /\ Exit(p, 1)
               ELSE /\ loc' = [loc EXCEPT ![p] = [NoLoc EXCEPT !.root = r.dir]]
                    /\ IF IsDownload(a)
                       THEN Goto(p, "install", [h EXCEPT !.installCalled = TRUE])
                       ELSE IF ~sentinelSeen
                            THEN /\ hist' = [hist EXCEPT ![p] = h]
                                 /\ Exit(p, 1)
                            ELSE Goto(p, "runGo", [h EXCEPT !.statOK = TRUE])
    /\ UNCHANGED <<goos, environ, userHome, paths, callVars>>

\* A variant of Run that goes on to runGo without looking for the sentinel.
RunNoStat(p) == RunFrom(p, TRUE)

Run(p) == RunFrom(p, Exists(fs, paths.sentinel))

(***************************************************************************)
(* runGo.                                                                  *)
(***************************************************************************)
\* runGo up to cmd.Run starting the delegate.
RunGo(p) ==
    /\ pc[p] = "runGo"
    /\ cmd' = [cmd EXCEPT ![p] = RunGoCmd(goos, loc[p].root, osArgs[p], environ)]
    /\ fs' = fs
    /\ Goto(p, "wait", [hist[p] EXCEPT !.spawned = TRUE])
    /\ UNCHANGED <<goos, environ, userHome, paths, runs, osArgs, loc, callVars>>

\* The code of exec.ExitError.ExitCode(): -1 for a process a signal killed.
ExitErrorCode(o) == IF o.kind = "signal" THEN -1 ELSE o.code

\* A variant of runGo's exit that reports every failure of the delegate as 1.
RunGoExitFlat(o) == IF o.kind = "exit" /\ o.code = 0 THEN 0 ELSE 1

\* The code runGo exits with when cmd.Run returns outcome o: an ExitError for
\* a delegate that ran and did not exit 0, another error for one that did
\* not start, nil otherwise.
RunGoExit(o) ==
    IF o.kind = "signal" \/ (o.kind = "exit" /\ o.code /= 0)
    THEN ExitErrorCode(o)
    ELSE IF o.kind = "startfail" THEN 1 ELSE 0

\* cmd.Run returns and runGo exits.
Wait(p) ==
    /\ pc[p] = "wait"
    /\ \E o \in ChildOutcomes(goos) :
        /\ hist' = [hist EXCEPT ![p] = [@ EXCEPT !.child = o.kind, !.childCode = o.code]]
        /\ Exit(p, RunGoExit(o))
    /\ UNCHANGED <<goos, environ, userHome, paths, fs, runs, osArgs, loc, cmd, callVars>>

(***************************************************************************)
(* install, one step for each call it makes on the file system or the      *)
(* network.  A call of the operating system may fail for reasons the model *)
(* does not hold (permissions, a full disk): ioErr chooses.                *)
(***************************************************************************)
Frame == UNCHANGED <<goos, environ, userHome, paths, runs, osArgs, cmd, callVars>>

\* A variant of install's first step that does not look for the sentinel.
InstallStatNoCheck(p) ==
    /\ pc[p] = "install"
    /\ fs' = fs
    /\ loc' = loc
    /\ Goto(p, "mkdir", hist[p])
    /\ Frame

\* os.Stat of the sentinel: install returns nil when it is there.
InstallStat(p) ==
    /\ pc[p] = "install"
    /\ fs' = fs
    /\ loc' = loc
    /\ IF Exists(fs, Sentinel(p))
       THEN InstallReturn(p, "", [hist[p] EXCEPT !.hadSentinel = TRUE])
       ELSE Goto(p, "mkdir", hist[p])
    /\ Frame

\* os.MkdirAll(targetDir, 0755).
InstallMkdir(p) ==
    /\ pc[p] = "mkdir"
    /\ \E ioErr \in BOOLEAN :
        LET mk == MkdirAll(goos, fs, loc[p].root)
        IN  IF ioErr \/ mk.err /= ""
            THEN /\ fs' = fs
                 /\ loc' = loc
                 /\ InstallReturn(p, "mkdir", hist[p])
            ELSE /\ fs' = mk.fs
                 /\ loc' = [loc EXCEPT ![p].goURL = paths.goURL]
                 /\ Goto(p, "head", hist[p])
    /\ Frame

\* A variant of the HEAD step that tries once more when the request failed.
InstallHeadRetry(p) ==
    /\ pc[p] = "head"
    /\ fs' = fs
    /\ \E res \in HeadResponses :
        LET h == [hist[p] EXCEPT !.nHead = @ + 1]
        IN  IF res.err
            THEN /\ loc' = loc
                 /\ IF hist[p].nHead = 0 THEN Goto(p, "head", h)
                                         ELSE InstallReturn(p, "head", h)
            ELSE IF res.status = StatusNotFound
                 THEN loc' = loc /\ InstallReturn(p, "no binary release", h)
                 ELSE IF res.status /= StatusOK
                      THEN loc' = loc /\ InstallReturn(p, "server returned", h)
                      ELSE /\ loc' = [loc EXCEPT
                                 ![p].contentLength = res.len,
                                 ![p].archiveFile = paths.archiveFile]
                           /\ Goto(p, "statArchive", [h EXCEPT !.headOK = TRUE])
    /\ Frame

\* http.Head(goURL) and the two checks of its status.
InstallHead(p) ==
    /\ pc[p] = "head"
    /\ fs' = fs
    /\ \E res \in HeadResponses :
        LET h == [hist[p] EXCEPT !.nHead = @ + 1]
        IN  IF res.err
            THEN loc' = loc /\ InstallReturn(p, "head", h)
            ELSE IF res.status = StatusNotFound
                 THEN loc' = loc /\ InstallReturn(p, "no binary release", h)
                 ELSE IF res.status /= StatusOK
                      THEN loc' = loc /\ InstallReturn(p, "server returned", h)
                      ELSE /\ loc' = [loc EXCEPT
                                 ![p].contentLength = res.len,
                                 ![p].archiveFile = paths.archiveFile]
                           /\ Goto(p, "statArchive", [h EXCEPT !.headOK = TRUE])
    /\ Frame

\* A variant of the first Stat of the archive file that never reuses it.
InstallStatArchiveAlways(p) ==
    /\ pc[p] = "statArchive"
    /\ fs' = fs
    /\ loc' = loc
    /\ \E ioErr \in BOOLEAN :
        IF ioErr
        THEN InstallReturn(p, "stat", hist[p])
        ELSE Goto(p, "create", hist[p])
    /\ Frame

\* os.Stat(archiveFile): the file is reused when its size is the server's,
\* downloaded when it is absent or of another size; any other error of Stat
\* ends install.
InstallStatArchive(p) ==
    /\ pc[p] = "statArchive"
    /\ fs' = fs
    /\ loc' = loc
    /\ \E ioErr \in BOOLEAN :
        IF ioErr
        THEN InstallReturn(p, "stat", hist[p])
        ELSE IF Exists(fs, loc[p].archiveFile)
                /\ Len(fs[loc[p].archiveFile].data) = loc[p].contentLength
             THEN Goto(p, "sidecar", [hist[p] EXCEPT !.sizeOK = TRUE])
             ELSE Goto(p, "create", hist[p])
    /\ Frame

\* copyFromURL: os.Create(dstFile), which truncates the file.
CopyCreate(p) ==
    /\ pc[p] = "create"
    /\ loc' = loc
    /\ \E ioErr \in BOOLEAN :
        LET cr == CreateFile(goos, fs, loc[p].archiveFile, "")
        IN  IF ioErr \/ cr.err /= ""
            THEN fs' = fs /\ InstallReturn(p, "error downloading", hist[p])
            ELSE fs' = cr.fs /\ Goto(p, "get", hist[p])
    /\ Frame

\* Whether copyFromURL returns an error after the GET answered res; closeErr
\* is the error of f.Close().
CopyFails(res, closeErr) ==
    \/ res.err
    \/ res.status /= StatusOK
    \/ res.copyErr
    \/ (res.len /= -1 /\ res.len /= Len(res.data))
    \/ closeErr

\* A variant of the GET step that keeps the file whatever happened.
CopyGetKeep(p) ==
    /\ pc[p] = "get"
    /\ loc' = loc
    /\ \E res \in GetResponses :
        /\ fs' = [fs EXCEPT ![loc[p].archiveFile] = FileNode(res.data)]
        /\ Goto(p, "restat", [hist[p] EXCEPT !.nGet = @ + 1, !.bodyLen = Len(res.data)])
    /\ Frame

\* A variant of the GET step whose deferred cleanup removes the installation
\* directory with all that is in it.
CopyGetCleanDir(p) ==
    /\ pc[p] = "get"
    /\ loc' = loc
    /\ \E res \in GetResponses, closeErr \in BOOLEAN :
        LET h == [hist[p] EXCEPT
                    !.nGet = @ + 1,
                    !.bodyLen = IF res.err \/ res.status /= StatusOK
                                THEN -1 ELSE Len(res.data)]
        IN  IF CopyFails(res, closeErr)
            THEN /\ fs' = [q \in {r \in DOMAIN fs : ~Within(goos, loc[p].root, r)} |-> fs[q]]
                 /\ InstallReturn(p, "error downloading", h)
            ELSE /\ fs' = [fs EXCEPT ![loc[p].archiveFile] = FileNode(res.data)]
                 /\ Goto(p, "restat", h)
    /\ Frame

\* copyFromURL: the GET, io.Copy of the body into the file, and the deferred
\* removal of the file when an error is returned.
CopyGet(p) ==
    /\ pc[p] = "get"
    /\ loc' = loc
    /\ \E res \in GetResponses, closeErr \in BOOLEAN :
        LET h == [hist[p] EXCEPT
                    !.nGet = @ + 1,
                    !.bodyLen = IF res.err \/ res.status /= StatusOK
                                THEN -1 ELSE Len(res.data)]
        IN  IF CopyFails(res, closeErr)
            THEN /\ fs' = RemoveFile(fs, loc[p].archiveFile)
                 /\ InstallReturn(p, "error downloading", h)
            ELSE /\ fs' = [fs EXCEPT ![loc[p].archiveFile] = FileNode(res.data)]
                 /\ Goto(p, "restat", h)
    /\ Frame

\* A variant of the second Stat that does not compare the sizes.
InstallRestatNoCompare(p) ==
    /\ pc[p] = "restat"
    /\ fs' = fs
    /\ loc' = loc
    /\ \E ioErr \in BOOLEAN :
        IF ioErr \/ ~Exists(fs, loc[p].archiveFile)
        THEN InstallReturn(p, "stat", hist[p])
        ELSE Goto(p, "sidecar", [hist[p] EXCEPT !.sizeOK = TRUE])
    /\ Frame

\* The second os.Stat(archiveFile) and the comparison of the sizes.
InstallRestat(p) ==
    /\ pc[p] = "restat"
    /\ fs' = fs
    /\ loc' = loc
    /\ \E ioErr \in BOOLEAN :
        IF ioErr \/ ~Exists(fs, loc[p].archiveFile)
        THEN InstallReturn(p, "stat", hist[p])
        ELSE IF Len(fs[loc[p].archiveFile].data) /= loc[p].contentLength
             THEN InstallReturn(p, "size doesn't match", hist[p])
             ELSE Goto(p, "sidecar", [hist[p] EXCEPT !.sizeOK = TRUE])
    /\ Frame

\* slurpURLToString(goURL + ".sha256").
InstallSidecar(p) ==
    /\ pc[p] = "sidecar"
    /\ fs' = fs
    /\ \E res \in SidecarResponses, readErr \in BOOLEAN :
        LET h == [hist[p] EXCEPT !.nSide = @ + 1]
        IN  IF res.err \/ res.status /= StatusOK \/ readErr
            THEN loc' = loc /\ InstallReturn(p, "sidecar", h)
            ELSE /\ loc' = [loc EXCEPT ![p].wantSHA = res.text]
                 /\ Goto(p, "verify", h)
    /\ Frame

\* A variant of the verification step that goes on whatever verifySHA256
\* returned.
InstallVerifyIgnored(p) ==
    /\ pc[p] = "verify"
    /\ fs' = fs
    /\ loc' = loc
    /\ Goto(p, "unpack", [hist[p] EXCEPT !.shaOK = TRUE])
    /\ Frame

\* verifySHA256(archiveFile, strings.TrimSpace(wantSHA)).
InstallVerify(p) ==
    /\ pc[p] = "verify"
    /\ fs' = fs
    /\ loc' = loc
    /\ LET err == VerifySHA256(fs, loc[p].archiveFile, TrimSpace(loc[p].wantSHA))
       IN  IF err /= ""
           THEN InstallReturn(p, "error verifying SHA256", hist[p])
           ELSE Goto(p, "unpack", [hist[p] EXCEPT !.shaOK = TRUE])
    /\ Frame

\* unpackArchive(targetDir, archiveFile).
InstallUnpack(p) ==
    /\ pc[p] = "unpack"
    /\ loc' = loc
    /\ LET data == IF IsFileAt(fs, loc[p].archiveFile)
                   THEN fs[loc[p].archiveFile].data ELSE ""
           parsed == IF IsFileAt(fs, loc[p].archiveFile)
                     THEN ParseArchive(data) ELSE [ok |-> FALSE, entries |-> <<>>]
           un == UnpackArchive(goos, loc[p].root, loc[p].archiveFile, parsed, fs)
       IN  /\ fs' = un.fs
           /\ IF un.err /= ""
              THEN InstallReturn(p, "extracting archive", hist[p])
              ELSE Goto(p, "writeOK", [hist[p] EXCEPT !.unpackOK = TRUE])
    /\ Frame

\* os.WriteFile of the sentinel, and install's return.
InstallWriteOK(p) ==
    /\ pc[p] = "writeOK"
    /\ loc' = loc
    /\ \E ioErr \in BOOLEAN :
        LET wr == CreateFile(goos, fs, Sentinel(p), "")
        IN  IF ioErr \/ wr.err /= ""
            THEN fs' = fs /\ InstallReturn(p, "sentinel", hist[p])
            ELSE fs' = wr.fs /\ InstallReturn(p, "", hist[p])
    /\ Frame

\* The invocation is over; the next one may start.
Exited(p) ==
    /\ pc[p] = "exited"
    /\ runs < MaxRuns
    /\ pc' = [pc EXCEPT ![p] = "idle"]
    /\ UNCHANGED <<goos, environ, userHome, paths, fs, runs, osArgs, loc, exitCode, cmd, hist,
                   callVars>>

Step(p) ==
    \/ Run(p)
    \/ RunGo(p)
    \/ Wait(p)
    \/ InstallStat(p)
    \/ InstallMkdir(p)
    \/ InstallHead(p)
    \/ InstallStatArchive(p)
    \/ CopyCreate(p)
    \/ CopyGet(p)
    \/ InstallRestat(p)
    \/ InstallSidecar(p)
    \/ InstallVerify(p)
    \/ InstallUnpack(p)
    \/ InstallWriteOK(p)
    \/ Exited(p)

Next == Step(1)

Spec == Init /\ [][Next]_vars

(***************************************************************************)
(* SpecUnpack: unpackArchive on its own, one step for each iteration of    *)
(* the unpackers' loops, on every archive of at most MaxEntries entries    *)
(* drawn from EntryChoices.                                                *)
(***************************************************************************)
EntryChoices ==
    { Entry("go/bin/go", "reg", "ELF"),
      Entry("go/pkg/", "dir", ""),
      Entry("../x", "reg", "X"),
      Entry("/x", "reg", "X"),
      Entry("..\\x", "reg", "X"),
      Entry("go/..", "dir", ""),
      Entry("a..b", "reg", "X"),
      Entry("go/lnk", "other", "") }

\* A well-formed release archive, its entries in each order.
ReleaseEntries ==
    { Entry("go/bin/go", "reg", "ELF"),
      Entry("go/lib/foo.txt", "reg", "text"),
      Entry("go/pkg/", "dir", "") }

ReleaseArchives ==
    {<<a, b, c>> : a, b, c \in ReleaseEntries} \cap
    {es \in [1..3 -> ReleaseEntries] : {es[i] : i \in 1..3} = ReleaseEntries}

\* Archives with an entry whose name is go/ and no more, or has a second
\* slash after go/.
PrefixArchives ==
    { <<Entry("go/", "dir", "")>>,
      <<Entry("go//x", "reg", "X")>>,
      <<Entry("go/bin/go", "reg", "ELF"), Entry("go/", "dir", "")>> }

RECURSIVE SeqsUpTo(_, _)
SeqsUpTo(S, n) ==
    IF n = 0 THEN {<<>>}
    ELSE LET shorter == SeqsUpTo(S, n - 1)
         IN  shorter \cup {Append(q, x) : q \in {r \in shorter : Len(r) = n - 1}, x \in S}

\* The directory the archives are unpacked into, and the archive's name in it.
UnpackTarget(g) == Join(g, <<"/t", "v">>)

UnpackFile(g, ext) == UnpackTarget(g) \o Separator(g) \o "a" \o ext

\* The file system unpackArchive is called in: install has made targetDir
\* and the archive file is in it.
UnpackFS0(g, ext) ==
    CreateFile(g, MkdirAll(g, [q \in {Separator(g)} |-> DirNode], UnpackTarget(g)).fs,
               UnpackFile(g, ext), "ARCHIVE").fs

InitUnpack ==
    /\ goos \in GOOSes
    /\ environ = <<>>
    /\ userHome = ""
    /\ paths = PathsOf(goos, <<"GOPATH=/t">>, "")
    /\ \E ext \in {".tar.gz", ".zip", ".7z"} :
        /\ fs = UnpackFS0(goos, ext)
        /\ \E dir \in {UnpackTarget(goos)}, file \in {UnpackFile(goos, ext)},
              es \in SeqsUpTo(EntryChoices, MaxEntries) \cup ReleaseArchives
                        \cup PrefixArchives :
            unp = [pc |-> "loop", targetDir |-> dir, archiveFile |-> file,
                   entries |-> es, pos |-> 0, madeDir |-> {}, err |-> "", fs0 |-> fs]
    /\ runs = 0
    /\ pc = [p \in Procs |-> "idle"]
    /\ osArgs = [p \in Procs |-> <<>>]
    /\ loc = [p \in Procs |-> NoLoc]
    /\ exitCode = [p \in Procs |-> -1]
    /\ cmd = [p \in Procs |-> NoCmd]
    /\ hist = [p \in Procs |-> NoHist]
    /\ ded = NoDedup
    /\ ver = NoVerify

\* unpackArchive's switch on the name of the archive file.
UnpackUnsupported ==
    /\ unp.pc = "loop"
    /\ ArchiveFormat(unp.archiveFile) = "unsupported"
    /\ unp' = [unp EXCEPT !.pc = "done", !.err = "unsupported archive file"]
    /\ UNCHANGED <<goos, environ, userHome, paths, fs, procVars, ded, ver>>

\* A variant of the loop that notes the error of an entry and goes on to
\* the next entry.
UnpackNextGoesOn ==
    /\ unp.pc = "loop"
    /\ ArchiveFormat(unp.archiveFile) /= "unsupported"
    /\ unp.pos < Len(unp.entries)
    /\ LET st == UnpackEntry(ArchiveFormat(unp.archiveFile), goos, unp.targetDir,
                             unp.entries[unp.pos + 1],
                             [fs |-> fs, madeDir |-> unp.madeDir, err |-> ""])
       IN  /\ fs' = st.fs
           /\ unp' = [unp EXCEPT !.pos = @ + 1, !.madeDir = st.madeDir,
                                 !.err = IF @ /= "" THEN @ ELSE st.err]
    /\ UNCHANGED <<goos, environ, userHome, paths, procVars, ded, ver>>

\* One iteration of the loop of unpackTarGz or unpackZip.
UnpackNext ==
    /\ unp.pc = "loop"
    /\ ArchiveFormat(unp.archiveFile) /= "unsupported"
    /\ unp.pos < Len(unp.entries)
    /\ LET st == UnpackEntry(ArchiveFormat(unp.archiveFile), goos, unp.targetDir,
                             unp.entries[unp.pos + 1],
                             [fs |-> fs, madeDir |-> unp.madeDir, err |-> ""])
       IN  /\ fs' = st.fs
           /\ unp' = [unp EXCEPT !.pos = @ + 1, !.madeDir = st.madeDir, !.err = st.err,
                                 !.pc = IF st.err /= "" THEN "done" ELSE "loop"]
    /\ UNCHANGED <<goos, environ, userHome, paths, procVars, ded, ver>>

\* The end of the archive: the unpacker returns nil.
UnpackEOF ==
    /\ unp.pc = "loop"
    /\ ArchiveFormat(unp.archiveFile) /= "unsupported"
    /\ unp.pos = Len(unp.entries)
    /\ unp' = [unp EXCEPT !.pc = "done"]
    /\ UNCHANGED <<goos, environ, userHome, paths, fs, procVars, ded, ver>>

NextUnpack == UnpackUnsupported \/ UnpackNext \/ UnpackEOF

SpecUnpack == InitUnpack /\ [][NextUnpack]_vars

(***************************************************************************)
(* SpecEnv: dedupEnv on its own, on every list of at most MaxEnvLen        *)
(* entries drawn from EnvEntries, with and without case folding.           *)
(***************************************************************************)
EnvEntries == {"FOO=1", "FOO=2", "Foo=1", "BAR=1", "FOO", "=FOO", "FOO="}

InitEnv ==
    /\ goos = "linux"
    /\ environ = <<>>
    /\ userHome = ""
    /\ paths = PathsOf(goos, <<"GOPATH=/t">>, "")
    /\ fs = [q \in {Separator(goos)} |-> DirNode]
    /\ runs = 0
    /\ pc = [p \in Procs |-> "idle"]
    /\ osArgs = [p \in Procs |-> <<>>]
    /\ loc = [p \in Procs |-> NoLoc]
    /\ exitCode = [p \in Procs |-> -1]
    /\ cmd = [p \in Procs |-> NoCmd]
    /\ hist = [p \in Procs |-> NoHist]
    /\ unp = NoUnpack
    /\ ver = NoVerify
    /\ \E ci \in BOOLEAN, env \in SeqsUpTo(EnvEntries, MaxEnvLen) :
        ded = [pc |-> "call", caseInsensitive |-> ci, env |-> env, out |-> <<>>]

\* The call of dedupEnv.
DedupCall ==
    /\ ded.pc = "call"
    /\ ded' = [ded EXCEPT !.pc = "done", !.out = dedupEnv(ded.caseInsensitive, ded.env)]
    /\ UNCHANGED <<goos, environ, userHome, paths, fs, procVars, unp, ver>>

NextEnv == DedupCall

SpecEnv == InitEnv /\ [][NextEnv]_vars

(***************************************************************************)
(* SpecVerify: verifySHA256 on its own, on a file that is absent or holds  *)
(* one of the contents of VerifyData, with each digest text of VerifyWants.*)
(***************************************************************************)
VerifyData == Delivered \cup {""}

VerifyWants ==
    {HexLower(Sha256Sum(d)) : d \in VerifyData}
    \cup {ToUpper(HexLower(Sha256Sum(d))) : d \in VerifyData}
    \cup {""}

InitVerify ==
    /\ goos \in GOOSes
    /\ environ = <<>>
    /\ userHome = ""
    /\ paths = PathsOf(goos, <<"GOPATH=/t">>, "")
    /\ \E file \in {Separator(goos) \o "f"} :
        /\ \/ fs = [q \in {Separator(goos)} |-> DirNode]
           \/ \E d \in VerifyData :
                fs = [q \in {Separator(goos), file} |->
                        IF q = file THEN FileNode(d) ELSE DirNode]
        /\ \E w \in VerifyWants :
            ver = [pc |-> "call", file |-> file, wantHex |-> w, err |-> ""]
    /\ runs = 0
    /\ pc = [p \in Procs |-> "idle"]
    /\ osArgs = [p \in Procs |-> <<>>]
    /\ loc = [p \in Procs |-> NoLoc]
    /\ exitCode = [p \in Procs |-> -1]
    /\ cmd = [p \in Procs |-> NoCmd]
    /\ hist = [p \in Procs |-> NoHist]
    /\ unp = NoUnpack
    /\ ded = NoDedup

\* The call of verifySHA256.
VerifyCall ==
    /\ ver.pc = "call"
    /\ ver' = [ver EXCEPT !.pc = "done", !.err = VerifySHA256(fs, ver.file, ver.wantHex)]
    /\ UNCHANGED <<goos, environ, userHome, paths, fs, procVars, unp, ded>>

NextVerify == VerifyCall

SpecVerify == InitVerify /\ [][NextVerify]_vars

(***************************************************************************)
(* The claims.                                                             *)
(***************************************************************************)
\* The invocation of Spec.
P == CHOOSE p \in Procs : \A q \in Procs : p <= q

Archive(p) == loc[p].archiveFile

\* The lowercase hexadecimal digest of the archive file of p's install.
ArchiveHex(p) == HexLower(Sha256Sum(fs[Archive(p)].data))

\* C1: in an install invocation that starts with no sentinel, the sentinel
\* is there only after, in that invocation, HEAD answered 200, the archive
\* file's size was the server's content length, verifySHA256 and
\* unpackArchive succeeded; when a step fails install returns an error (Run
\* exits non-zero) and the sentinel is absent.
C1_SentinelOnlyAfterAllSteps ==
    (hist[P].installCalled /\ ~hist[P].sentinelAtStart) =>
        /\ Exists(fs, Sentinel(P)) =>
              /\ hist[P].headOK /\ hist[P].sizeOK /\ hist[P].shaOK /\ hist[P].unpackOK
              /\ hist[P].result = "ok"
              /\ IsFileAt(fs, Archive(P))
              /\ Len(fs[Archive(P)].data) = loc[P].contentLength
              /\ ArchiveHex(P) = TrimSpace(loc[P].wantSHA)
              /\ ParseArchive(fs[Archive(P)].data).ok
        /\ (pc[P] = "exited" /\ hist[P].result /= "ok") =>
              /\ ~Exists(fs, Sentinel(P))
              /\ exitCode[P] /= 0
        /\ (pc[P] = "exited" /\ hist[P].result = "ok") =>
              /\ Exists(fs, Sentinel(P))
              /\ exitCode[P] = 0

C1_Witness ==
    /\ pc[P] = "exited"
    /\ hist[P].installCalled /\ ~hist[P].sentinelAtStart
    /\ hist[P].result = "ok"
    /\ Exists(fs, Sentinel(P))

\* C2: when the sentinel exists at the call of install, install returns nil
\* with no HEAD, no body GET, no sidecar GET and no change of the file
\* system; so the install that follows a successful install does no network
\* I/O.
C2_InstalledIsNoOp ==
    /\ (hist[P].installCalled /\ hist[P].sentinelAtStart) =>
          /\ hist[P].nHead = 0 /\ hist[P].nGet = 0 /\ hist[P].nSide = 0
          /\ ~hist[P].wrote
          /\ pc[P] \in {"install", "exited", "idle"}
          /\ pc[P] /= "install" => (hist[P].result = "ok" /\ exitCode[P] = 0)
    /\ (hist[P].installCalled /\ hist[P].prevOK) =>
          /\ hist[P].sentinelAtStart
          /\ hist[P].nHead = 0 /\ hist[P].nGet = 0 /\ hist[P].nSide = 0

C2_Witness ==
    /\ pc[P] = "exited"
    /\ hist[P].installCalled /\ hist[P].prevOK /\ hist[P].sentinelAtStart
    /\ hist[P].result = "ok"

\* The names the path-safety property speaks of.
UnsafeName(n) == Contains(n, "..") \/ HasPrefix(n, "/") \/ Contains(n, "\\")

\* A path outside targetDir that the unpacker created or changed.
TouchedOutside ==
    \E q \in DOMAIN fs :
        /\ ~Within(goos, unp.targetDir, q)
        /\ (q \notin DOMAIN unp.fs0 \/ fs[q] /= unp.fs0[q])

\* C3: for a tar.gz and for a zip archive, when the unpacker has come to an
\* entry whose name contains "..", starts with "/" or contains "\", unpacking
\* fails with the unsafe-entry error and nothing outside targetDir is
\* created.
C3_UnsafeEntryRejected ==
    ( /\ unp.pc = "done"
      /\ ArchiveFormat(unp.archiveFile) \in {"tar.gz", "zip"}
      /\ \E i \in 1..unp.pos : UnsafeName(unp.entries[i].name) )
    => (unp.err = "invalid name" /\ ~TouchedOutside)

VerReadable == IsFileAt(fs, ver.file)

VerHex == HexLower(Sha256Sum(fs[ver.file].data))

\* C4 as amended: verifySHA256 returns nil exactly when the file is read and
\* the lowercase hexadecimal digest of its contents is wantHex, character for
\* character; the checksum error when it is read and they differ (be it only
\* in the case of the letters); the I/O error when it cannot be read.
C4_ExactCompare ==
    ver.pc = "done" =>
        /\ ver.err = "" <=> (VerReadable /\ VerHex = ver.wantHex)
        /\ ver.err = "checksum" <=> (VerReadable /\ VerHex /= ver.wantHex)
        /\ ver.err = "io" <=> ~VerReadable

C4_Witness ==
    /\ ver.pc = "done"
    /\ VerReadable
    /\ VerHex /= ver.wantHex
    /\ ToLower(VerHex) = ToLower(ver.wantHex)
    /\ ver.err = "checksum"

\* C4 as claimed: on a file it reads, verifySHA256 returns nil exactly when
\* the two hexadecimal strings are equal without regard to case.
C4_CaseInsensitive ==
    (ver.pc = "done" /\ VerReadable) =>
        (ver.err = "" <=> ToLower(VerHex) = ToLower(ver.wantHex))

\* C5: when HEAD reported content length L and the body GET delivered a
\* body of another length, install returns an error and the sentinel is not
\* created; the error is the download error or the size-mismatch error
\* (unless the operating system failed the Stat of the downloaded file, whose
\* error install then returns).
C5_SizeMismatchFails ==
    ( /\ hist[P].headOK
      /\ hist[P].nGet = 1
      /\ hist[P].bodyLen >= 0
      /\ hist[P].bodyLen /= loc[P].contentLength )
    => /\ ~Exists(fs, Sentinel(P))
       /\ pc[P] \in {"restat", "exited", "idle"}
       /\ pc[P] /= "restat" =>
            /\ hist[P].result \in {"error downloading", "size doesn't match", "stat"}
            /\ exitCode[P] /= 0

C5_Witness ==
    /\ pc[P] = "exited"
    /\ hist[P].headOK /\ hist[P].nGet = 1
    /\ hist[P].bodyLen >= 0 /\ hist[P].bodyLen /= loc[P].contentLength
    /\ hist[P].result = "size doesn't match"
    /\ ~Exists(fs, Sentinel(P))

\* Whether p's arguments (os.Args without the program name) are exactly the
\* token download.
ArgsAreDownload(p) == osArgs[p] /= <<>> /\ Tail(osArgs[p]) = <<"download">>

Started(p) == osArgs[p] /= <<>>

Over(p) == pc[p] \in {"exited", "idle"}

\* C6 as amended: a run whose arguments are exactly download and whose
\* installation directory resolves calls install, spawns no child and exits
\* 0 when install returned nil, non-zero when it returned an error; one
\* whose directory does not resolve exits non-zero without calling install;
\* a run with any other arguments never calls install.
C6_DownloadBranch ==
    Started(P) =>
        /\ (ArgsAreDownload(P) /\ ~hist[P].rootErr) =>
              /\ hist[P].installCalled
              /\ ~hist[P].spawned
              /\ Over(P) => /\ hist[P].result /= "none"
                            /\ hist[P].result = "ok" => exitCode[P] = 0
                            /\ hist[P].result /= "ok" => exitCode[P] /= 0
        /\ (ArgsAreDownload(P) /\ hist[P].rootErr) =>
              /\ ~hist[P].installCalled /\ ~hist[P].spawned
              /\ Over(P) /\ exitCode[P] /= 0
        /\ ~ArgsAreDownload(P) => ~hist[P].installCalled

C6_Witness ==
    /\ ArgsAreDownload(P)
    /\ pc[P] = "exited"
    /\ hist[P].installCalled
    /\ hist[P].result /= "ok" /\ hist[P].nHead = 1
    /\ exitCode[P] /= 0

\* C6 as claimed: every run whose arguments are exactly download calls
\* install and spawns no child, and exits 0 or non-zero as install returned.
C6_DownloadAlwaysInstalls ==
    (Started(P) /\ ArgsAreDownload(P)) =>
        /\ hist[P].installCalled
        /\ ~hist[P].spawned
        /\ Over(P) => /\ hist[P].result = "ok" => exitCode[P] = 0
                      /\ hist[P].result /= "ok" => exitCode[P] /= 0

\* C7: a run with arguments other than exactly download that finds no
\* sentinel in the resolved installation directory ends with a non-zero
\* status, having spawned nothing, made no request and changed no file; a
\* delegate is spawned only in a run whose Stat of the sentinel succeeded.
C7_NotInstalledIsFatal ==
    /\ ( /\ Started(P) /\ ~ArgsAreDownload(P)
         /\ ~hist[P].rootErr /\ ~hist[P].sentinelAtStart )
       => /\ Over(P)
          /\ exitCode[P] /= 0
          /\ ~hist[P].spawned /\ ~hist[P].installCalled
          /\ hist[P].nHead = 0 /\ hist[P].nGet = 0 /\ hist[P].nSide = 0
          /\ ~hist[P].wrote
    /\ (hist[P].spawned \/ pc[P] = "runGo") =>
          (hist[P].statOK /\ hist[P].sentinelAtStart)

C7_Witness ==
    /\ pc[P] = "exited"
    /\ osArgs[P] = <<Version, "build", "./...">>
    /\ ~hist[P].rootErr /\ ~hist[P].sentinelAtStart
    /\ exitCode[P] = 1
    /\ runs = 2

\* C8: after the delegate has ended the wrapper's exit status is the
\* delegate's exit code when it exited with one (0 for success), and is not
\* zero when the delegate could not be started or a signal killed it.
C8_ExitCodePropagated ==
    (Over(P) /\ hist[P].spawned) =>
        /\ hist[P].child = "exit" => exitCode[P] = hist[P].childCode
        /\ hist[P].child \in {"signal", "startfail"} => exitCode[P] /= 0
        /\ hist[P].child \in {"exit", "signal", "startfail"}

C8_Witness ==
    /\ pc[P] = "exited"
    /\ hist[P].spawned
    /\ hist[P].child = "exit" /\ hist[P].childCode = 2
    /\ exitCode[P] = 2

\* The indices of the entries of env whose key is key, as the platform
\* compares keys.
EntriesOf(env, key) ==
    {i \in 1..Len(env) :
        /\ WellFormed(env[i])
        /\ FoldKey(goos = "windows", EnvKey(env[i])) = FoldKey(goos = "windows", key)}

\* C9: with the sentinel there and arguments other than exactly download,
\* the delegate is started with os.Args[1:] as they are and an environment
\* with exactly one GOROOT entry, the installation directory, and exactly
\* one PATH entry, the installation's bin directory followed by the
\* inherited PATH when that is not empty.
C9_DelegateCommand ==
    /\ ( /\ Started(P) /\ ~ArgsAreDownload(P)
         /\ ~hist[P].rootErr /\ hist[P].sentinelAtStart /\ pc[P] /= "runGo" )
       => hist[P].spawned
    /\ hist[P].spawned =>
        LET root == loc[P].root
            bin  == root \o Separator(goos) \o "bin"
            old  == Getenv(goos, environ, "PATH")
            path == IF old = "" THEN bin ELSE bin \o ListSeparator(goos) \o old
            env  == cmd[P].env
        IN  /\ ~ArgsAreDownload(P)
            /\ cmd[P].args = Tail(osArgs[P])
            /\ cmd[P].path = bin \o Separator(goos) \o "go" \o exe(goos)
            /\ Cardinality(EntriesOf(env, "GOROOT")) = 1
            /\ \A i \in EntriesOf(env, "GOROOT") : EnvValue(env[i]) = root
            /\ Cardinality(EntriesOf(env, "PATH")) = 1
            /\ \A i \in EntriesOf(env, "PATH") : EnvValue(env[i]) = path
            /\ \A i \in 1..Len(environ) :
                  (environ[i] \in {env[j] : j \in 1..Len(env)})
                  \/ (i \in EntriesOf(environ, "GOROOT") \cup EntriesOf(environ, "PATH"))

C9_Witness ==
    /\ pc[P] = "wait"
    /\ osArgs[P] = <<Version, "build", "./...">>
    /\ cmd[P].args = <<"build", "./...">>
    /\ EntriesOf(environ, "GOROOT") /= {}
    /\ Getenv(goos, environ, "PATH") /= ""
    /\ Len(cmd[P].env) = Len(environ)

\* The key of kv as dedupEnv was told to compare keys.
DedKey(kv) == FoldKey(ded.caseInsensitive, EnvKey(kv))

\* The last entry of the input with the key of kv.
LastWithKey(kv) ==
    LET hits == {i \in 1..Len(ded.env) :
                    WellFormed(ded.env[i]) /\ DedKey(ded.env[i]) = DedKey(kv)}
    IN  ded.env[CHOOSE i \in hits : \A j \in hits : i >= j]

\* C10: in dedupEnv's result no two well-formed entries have the same key
\* (compared without case when the flag is set), and the entry kept for a
\* key is the last entry of the input with that key.
C10_DedupLastWins ==
    ded.pc = "done" =>
        /\ \A i, j \in 1..Len(ded.out) :
              (i < j /\ WellFormed(ded.out[i]) /\ WellFormed(ded.out[j]))
              => DedKey(ded.out[i]) /= DedKey(ded.out[j])
        /\ \A i \in 1..Len(ded.env) :
              WellFormed(ded.env[i]) =>
                  \E j \in 1..Len(ded.out) :
                      /\ WellFormed(ded.out[j])
                      /\ DedKey(ded.out[j]) = DedKey(ded.env[i])
                      /\ ded.out[j] = LastWithKey(ded.env[i])
        /\ \A j \in 1..Len(ded.out) :
              WellFormed(ded.out[j]) => \E i \in 1..Len(ded.env) : ded.env[i] = ded.out[j]

C10_Witness ==
    /\ ded.pc = "done"
    /\ ded.caseInsensitive
    /\ ded.env = <<"Foo=1", "FOO=2">>
    /\ ded.out = <<"FOO=2">>

\* C11: when install is called where there is no installation directory and
\* the HEAD probe returns 404, install reports that there is no binary
\* release, the exit status is not zero, and neither the installation
\* directory nor the sentinel has been created.
C11_NotFoundCreatesNothing ==
    ( /\ runs = 1
      /\ hist[P].installCalled
      /\ hist[P].nHead = 1
      /\ hist[P].result = "no binary release" )
    => /\ exitCode[P] /= 0
       /\ ~Exists(fs, loc[P].root)
       /\ ~Exists(fs, Sentinel(P))

\* The path of name (slash-separated, relative) under the target directory
\* of the unpacking, written with the platform's separator.
Under(a, b) ==
    unp.targetDir \o Separator(goos) \o a \o (IF b = "" THEN "" ELSE Separator(goos) \o b)

IsReleaseArchive ==
    /\ Len(unp.entries) = 3
    /\ {unp.entries[i] : i \in 1..3} = ReleaseEntries

\* C12: unpacking a tar.gz or zip archive with the entries go/bin/go,
\* go/lib/foo.txt and go/pkg/ into a targetDir that holds nothing but the
\* archive succeeds and creates exactly bin/go, lib/foo.txt and pkg/ (with
\* the directories bin and lib) under targetDir, the leading go/ stripped;
\* bin/go has the contents and the size of its entry.
C12_ReleaseRoundTrip ==
    ( /\ unp.pc = "done"
      /\ ArchiveFormat(unp.archiveFile) \in {"tar.gz", "zip"}
      /\ IsReleaseArchive )
    => /\ unp.err = ""
       /\ DOMAIN fs \ DOMAIN unp.fs0 =
             {Under("bin", ""), Under("bin", "go"), Under("lib", ""),
              Under("lib", "foo.txt"), Under("pkg", "")}
       /\ \A q \in DOMAIN unp.fs0 : fs[q] = unp.fs0[q]
       /\ fs[Under("bin", "go")] = FileNode("ELF")
       /\ \E i \in 1..3 : /\ unp.entries[i].name = "go/bin/go"
                          /\ Len(fs[Under("bin", "go")].data) = unp.entries[i].size
       /\ fs[Under("lib", "foo.txt")] = FileNode("text")
       /\ fs[Under("pkg", "")] = DirNode
       /\ fs[Under("bin", "")] = DirNode /\ fs[Under("lib", "")] = DirNode

C12_Witness ==
    /\ unp.pc = "done"
    /\ ArchiveFormat(unp.archiveFile) = "zip"
    /\ goos = "windows"
    /\ IsReleaseArchive
    /\ unp.entries[1].name = "go/pkg/"
    /\ unp.err = ""
    /\ IsFileAt(fs, Under("bin", "go"))

\* Whether P's archive file is there with the size the HEAD probe reported.
ArchiveHasLength ==
    /\ Exists(fs, Archive(P))
    /\ Len(fs[Archive(P)].data) = loc[P].contentLength

\* What install's steps from the first Stat of the archive file to the
\* second may do.
C13_Steps ==
    /\ pc[P] = "statArchive" =>
          /\ fs' = fs
          /\ hist'[P].nGet = 0
          /\ pc'[P] \in (IF ArchiveHasLength THEN {"sidecar", "exited"}
                                             ELSE {"create", "exited"})
          /\ pc'[P] = "exited" => (hist'[P].result = "stat" /\ exitCode'[P] /= 0)
    /\ pc[P] = "create" =>
          /\ hist'[P].nGet = 0
          /\ pc'[P] \in {"get", "exited"}
          /\ pc'[P] = "exited" => hist'[P].result = "error downloading"
    /\ pc[P] = "get" =>
          /\ hist[P].nGet = 0 /\ hist'[P].nGet = 1
          /\ pc'[P] \in {"restat", "exited"}
          /\ pc'[P] = "exited" => hist'[P].result = "error downloading"
    /\ pc[P] = "restat" =>
          /\ fs' = fs
          /\ hist'[P].nGet = 1
          /\ pc'[P] \in {"sidecar", "exited"}
          /\ pc'[P] = "sidecar" => ArchiveHasLength
          /\ ~ArchiveHasLength => /\ pc'[P] = "exited" /\ exitCode'[P] /= 0
                                  /\ hist'[P].result \in {"size doesn't match", "stat"}
    /\ pc[P] \in {"sidecar", "verify"} =>
          /\ hist'[P].nGet = hist[P].nGet
          /\ Archive(P) \in DOMAIN fs'
          /\ fs'[Archive(P)] = fs[Archive(P)]

\* C13: after a 200 HEAD probe reporting length L, install reuses the
\* archive file when it is there with size L, issuing no body GET, and that
\* file is the one verified and unpacked; otherwise it downloads it with one
\* body GET (none when the file cannot be created) and Stats it again, a size
\* other than L being fatal; an error of the first Stat other than
\* not-exists is fatal without any download.
C13_ReuseOrDownloadOnce ==
    /\ [](hist[P].nGet <= 1)
    /\ []((hist[P].headOK /\ pc[P] \in {"sidecar", "verify", "unpack"})
            => (ArchiveHasLength /\ hist[P].sizeOK))
    /\ [][C13_Steps]_vars

C13_Witness ==
    /\ pc[P] = "exited"
    /\ hist[P].installCalled /\ ~hist[P].sentinelAtStart
    /\ hist[P].headOK /\ hist[P].nGet = 0
    /\ hist[P].result = "ok"
    /\ Exists(fs, Sentinel(P))

\* The digest the sidecar of a well-formed archive states.
GoodHex == HexLower(Sha256Sum("GOOD"))

\* P's invocation is a retry of install, after an invocation that did not
\* succeed, in which the server answered as it should: HEAD 200 with the
\* length of the archive, the sidecar with the archive's digest and, when
\* asked for the body, the archive.
RetryWithServerFixed ==
    /\ runs = 2
    /\ hist[P].installCalled /\ ~hist[P].prevOK /\ ~hist[P].sentinelAtStart
    /\ hist[P].headOK /\ loc[P].contentLength = Len("GOOD")
    /\ hist[P].nSide = 1 /\ TrimSpace(loc[P].wantSHA) = GoodHex
    /\ hist[P].nGet = 1 => (Exists(fs, Archive(P)) /\ fs[Archive(P)].data = "GOOD")

\* C14: a retried install, after a failed one and with the server answering
\* as it should, succeeds and writes the sentinel (no failure of the local
\* file system being at play).
C14_RetrySucceeds ==
    ( /\ RetryWithServerFixed
      /\ pc[P] = "exited"
      /\ hist[P].result \notin {"sentinel", "stat", "mkdir"} )
    => (hist[P].result = "ok" /\ Exists(fs, Sentinel(P)) /\ exitCode[P] = 0)

(***************************************************************************)
(* Concurrent invocations: the processes of Procs run Run, install and     *)
(* runGo side by side on the one file system, with no lock between them.   *)
(***************************************************************************)
\* The configuration of the concurrent invocations: one environment, which
\* resolves the installation directory on each platform.
InitConc ==
    /\ Init
    /\ environ = <<"GOPATH=/g", "HOME=/h">>
    /\ userHome = ""

\* Each process is invoked once.
NextConc == \E p \in Procs : (pc[p] = "idle" => osArgs[p] = <<>>) /\ Step(p)

SpecConc == InitConc /\ [][NextConc]_vars

\* C15: once the sentinel is there, no step of any invocation, download or
\* delegation, alone or beside another, removes it or the installation
\* directory.
C15_InstalledIsStable ==
    [][Exists(fs, paths.sentinel) =>
          /\ IsFileAt(fs', paths.sentinel)
          /\ IsDirAt(fs', paths.root.dir)]_vars

C15_Witness ==
    /\ Exists(fs, paths.sentinel)
    /\ hist[1].result = "ok" /\ pc[1] = "exited"
    /\ hist[2].installCalled /\ ~hist[2].sentinelAtStart
    /\ hist[2].result = "error downloading" /\ hist[2].nGet = 1
    /\ ~Exists(fs, paths.archiveFile)

\* Whether the archive file of the installation is there and an archive.
ArchiveIntact ==
    /\ IsFileAt(fs, paths.archiveFile)
    /\ ParseArchive(fs[paths.archiveFile].data).ok

\* The processes that called install when there was no sentinel.
Installers == {p \in Procs : hist[p].installCalled /\ ~hist[p].sentinelAtStart}

\* C16: install takes no lock.  The sentinel is there while the archive file
\* is truncated, removed or no archive only when two invocations of install
\* overlapped, both having found no sentinel; and (the witness) there is such
\* an interleaving, one invocation writing the sentinel while the other has
\* truncated the archive file for its own download.
C16_RaceNeedsTwoInstallers ==
    (Exists(fs, paths.sentinel) /\ ~ArchiveIntact) => Cardinality(Installers) = 2

C16_Witness ==
    /\ Exists(fs, paths.sentinel)
    /\ pc[1] = "exited" /\ hist[1].result = "ok"
    /\ pc[2] = "get"
    /\ IsFileAt(fs, paths.archiveFile) /\ fs[paths.archiveFile].data = ""

\* The directory the installations are kept under: GOPATH when it is set
\* and not empty, else the home directory, "" when there is none.
SdkBase ==
    IF Getenv(goos, environ, "GOPATH") /= "" THEN Getenv(goos, environ, "GOPATH")
    ELSE IF goos = "windows" THEN Getenv(goos, environ, "USERPROFILE")
    ELSE IF Getenv(goos, environ, "HOME") /= "" THEN Getenv(goos, environ, "HOME")
    ELSE userHome

TargetOf(i) ==
    Join(goos, <<unp.targetDir, FromSlash(goos, TrimPrefix(unp.entries[i].name, "go/"))>>)

\* C18: unpackTarGz takes the entries in the order of the archive.  When it
\* returns the error of an unsafe name, the entry it stopped at is the first
\* the check rejects; the regular files and directories of the entries
\* before it are on disk as extracted, and nothing of any entry after it
\* has been created.
C18_TarStopsAtFirstUnsafe ==
    ( /\ unp.pc = "done"
      /\ ArchiveFormat(unp.archiveFile) = "tar.gz"
      /\ unp.err = "invalid name" )
    => /\ unp.pos \in 1..Len(unp.entries)
       /\ ~validRelPath(unp.entries[unp.pos].name)
       /\ \A j \in 1..(unp.pos - 1) :
             /\ validRelPath(unp.entries[j].name)
             /\ unp.entries[j].typ = "dir" => IsDirAt(fs, TargetOf(j))
             /\ ( /\ unp.entries[j].typ = "reg"
                  /\ \A k \in (j + 1)..(unp.pos - 1) : TargetOf(k) /= TargetOf(j) )
                => fs[TargetOf(j)] = FileNode(unp.entries[j].data)
       /\ \A q \in DOMAIN fs \ DOMAIN unp.fs0 :
             \E j \in 1..(unp.pos - 1) : Within(goos, q, TargetOf(j))
       /\ \A q \in DOMAIN unp.fs0 :
             (q \in DOMAIN fs /\ fs[q] = unp.fs0[q])
             \/ \E j \in 1..(unp.pos - 1) : q = TargetOf(j)

C18_Witness ==
    /\ unp.pc = "done"
    /\ ArchiveFormat(unp.archiveFile) = "tar.gz"
    /\ unp.err = "invalid name"
    /\ unp.pos = 2 /\ Len(unp.entries) = 2
    /\ unp.entries[1].name = "go/bin/go"
    /\ fs[TargetOf(1)] = FileNode("ELF")

\* The name of the entry at position i with the leading go/ stripped.
Stripped(i) == TrimPrefix(unp.entries[i].name, "go/")

\* C19: for a tar.gz and for a zip archive, an entry whose name with the
\* leading go/ stripped is empty or begins with a path separator is rejected
\* as unsafe: unpacking stops at it with the error of an unsafe name.
C19_StrippedNameChecked ==
    \A i \in 1..unp.pos :
        ( /\ unp.pc = "done"
          /\ ArchiveFormat(unp.archiveFile) \in {"tar.gz", "zip"}
          /\ (Stripped(i) = "" \/ HasPrefix(Stripped(i), "/"))
          /\ \A j \in 1..(i - 1) : validRelPath(Stripped(j)) )
        => (unp.err = "invalid name" /\ unp.pos = i)

\* The positions of the input whose entry takes a place in the output: the
\* malformed entries and the first entry of each key.
KeptPositions ==
    {i \in 1..Len(ded.env) :
        \/ ~WellFormed(ded.env[i])
        \/ \A j \in 1..(i - 1) :
              ~(WellFormed(ded.env[j]) /\ DedKey(ded.env[j]) = DedKey(ded.env[i]))}

\* The k-th of the kept positions.
KeptAt(k) ==
    CHOOSE i \in KeptPositions : Cardinality({j \in KeptPositions : j <= i}) = k

\* How often entry kv is in sequence s.
Count(s, kv) == Cardinality({i \in 1..Len(s) : s[i] = kv})

\* C20: dedupEnv passes an entry with no "=" or with "=" first through as it
\* is: it is in the output as often as in the input, it takes the place of
\* no entry and no entry takes its place, and the output has the malformed
\* entries and the keys in the order of their first occurrences in the
\* input.
C20_MalformedPassThrough ==
    ded.pc = "done" =>
        /\ Len(ded.out) = Cardinality(KeptPositions)
        /\ \A k \in 1..Len(ded.out) :
              IF WellFormed(ded.env[KeptAt(k)])
              THEN WellFormed(ded.out[k]) /\ DedKey(ded.out[k]) = DedKey(ded.env[KeptAt(k)])
              ELSE ded.out[k] = ded.env[KeptAt(k)]
        /\ \A i \in 1..Len(ded.env) :
              ~WellFormed(ded.env[i]) =>
                  Count(ded.out, ded.env[i]) = Count(ded.env, ded.env[i])

C20_Witness ==
    /\ ded.pc = "done"
    /\ ded.env = <<"=FOO", "FOO=1", "=FOO">>
    /\ ded.out = <<"=FOO", "FOO=1", "=FOO">>

\* The requests P's invocation has issued so far.
Requests(h) == <<h.nHead, h.nGet, h.nSide>>

\* One step issues at most one request, and a request of a kind only when
\* none of a later kind has been issued.
C21_Steps ==
    (pc[P] /= "idle") =>
        /\ hist'[P].nHead \in {hist[P].nHead, hist[P].nHead + 1}
        /\ hist'[P].nGet \in {hist[P].nGet, hist[P].nGet + 1}
        /\ hist'[P].nSide \in {hist[P].nSide, hist[P].nSide + 1}
        /\ (hist'[P].nHead + hist'[P].nGet + hist'[P].nSide)
              <= (hist[P].nHead + hist[P].nGet + hist[P].nSide) + 1
        /\ hist'[P].nHead > hist[P].nHead => (hist[P].nGet = 0 /\ hist[P].nSide = 0)
        /\ hist'[P].nGet > hist[P].nGet => (hist[P].nHead = 1 /\ hist[P].nSide = 0)
        /\ hist'[P].nSide > hist[P].nSide => hist[P].nHead = 1
        /\ Over(P) => Requests(hist'[P]) = Requests(hist[P])

\* C21: one invocation of install issues at most one HEAD, then at most one
\* body GET, then at most one sidecar GET, each only after the one before it
\* succeeded; the first request that fails ends install with an error and no
\* further request.
C21_RequestsInOrderOnce ==
    /\ [](/\ hist[P].nHead <= 1 /\ hist[P].nGet <= 1 /\ hist[P].nSide <= 1
          /\ hist[P].nGet = 1 => hist[P].headOK
          /\ hist[P].nSide = 1 => (hist[P].headOK /\ hist[P].sizeOK)
          /\ (hist[P].nHead = 1 /\ ~hist[P].headOK) =>
                /\ Over(P) /\ exitCode[P] /= 0
                /\ hist[P].result \in {"head", "no binary release", "server returned"}
                /\ hist[P].nGet = 0 /\ hist[P].nSide = 0
          /\ (hist[P].nGet = 1 /\ ~hist[P].sizeOK /\ pc[P] /= "restat") =>
                /\ Over(P) /\ exitCode[P] /= 0
                /\ hist[P].result \in {"error downloading", "size doesn't match", "stat"}
                /\ hist[P].nSide = 0
          /\ (hist[P].nSide = 1 /\ hist[P].result = "sidecar") =>
                (Over(P) /\ exitCode[P] /= 0))
    /\ [][C21_Steps]_vars

C21_Witness ==
    /\ pc[P] = "exited"
    /\ Requests(hist[P]) = <<1, 1, 1>>
    /\ hist[P].result = "sidecar"
    /\ exitCode[P] /= 0

\* Whether the entry at position i is neither a regular file nor a directory.
OtherType(i) == unp.entries[i].typ \notin {"reg", "dir"}

\* C22: in a tar.gz archive an entry that is neither a regular file nor a
\* directory (its name passing the check) makes unpackTarGz return the error
\* of an unsupported type: unpacking stops at that entry, nothing is created
\* for it and nothing of a later entry is extracted.
C22_TarUnsupportedType ==
    (unp.pc = "done" /\ ArchiveFormat(unp.archiveFile) = "tar.gz") =>
        /\ \A i \in 1..unp.pos :
              (OtherType(i) /\ validRelPath(unp.entries[i].name))
              => (unp.err = "unsupported type" /\ unp.pos = i)
        /\ unp.err = "unsupported type" =>
              /\ unp.pos \in 1..Len(unp.entries)
              /\ OtherType(unp.pos)
              /\ \A q \in DOMAIN fs \ DOMAIN unp.fs0 :
                    \E j \in 1..(unp.pos - 1) :
                        ~OtherType(j) /\ Within(goos, q, TargetOf(j))
              /\ (TargetOf(unp.pos) \in DOMAIN fs) =>
                    \E j \in 1..(unp.pos - 1) : Within(goos, TargetOf(unp.pos), TargetOf(j))

C22_Witness ==
    /\ unp.pc = "done"
    /\ ArchiveFormat(unp.archiveFile) = "tar.gz"
    /\ unp.err = "unsupported type"
    /\ Len(unp.entries) = 2 /\ unp.pos = 1
    /\ unp.entries[1].name = "go/lnk"
    /\ unp.entries[2].name = "go/bin/go"
    /\ fs = unp.fs0

\* A step that creates or changes something other than the archive file,
\* the sentinel and the directories MkdirAll(targetDir) makes.
ExtractsSomething ==
    /\ pc[P] /= "mkdir"
    /\ \E q \in DOMAIN fs' :
          /\ q \notin {paths.archiveFile, paths.sentinel}
          /\ (q \notin DOMAIN fs \/ fs'[q] /= fs[q])

\* C23: install calls unpackArchive only after verifySHA256 has returned nil,
\* in the same invocation, on the archive file as it then is, whether the
\* file was downloaded or reused; nothing is extracted by any other step.
C23_UnpackOnlyVerified ==
    /\ []((pc[P] = "unpack" \/ hist[P].unpackOK) =>
             /\ hist[P].shaOK /\ hist[P].nSide = 1 /\ hist[P].sizeOK
             /\ IsFileAt(fs, Archive(P))
             /\ ArchiveHex(P) = TrimSpace(loc[P].wantSHA))
    /\ [][ExtractsSomething =>
             /\ pc[P] = "unpack" /\ hist[P].shaOK
             /\ ArchiveHex(P) = TrimSpace(loc[P].wantSHA)]_vars

C23_Witness ==
    /\ pc[P] = "writeOK"
    /\ hist[P].unpackOK /\ hist[P].shaOK
    /\ hist[P].nGet = 0
    /\ IsFileAt(fs, Join(goos, <<loc[P].root, "bin", "go">>))

\* C24: copyFromURL leaves no partial download.  When it returns an error
\* after it created or truncated the destination file, the file has been
\* removed, so that no later call of install finds it; when it returns nil
\* the file holds the bytes of the response body, all of them.
C24_NoPartialDownload ==
    /\ [](pc[P] = "restat" =>
             /\ hist[P].nGet = 1 /\ hist[P].bodyLen >= 0
             /\ IsFileAt(fs, Archive(P))
             /\ fs[Archive(P)].data \in Delivered
             /\ Len(fs[Archive(P)].data) = hist[P].bodyLen)
    /\ []((Over(P) /\ hist[P].nGet = 1 /\ hist[P].result = "error downloading")
             => ~Exists(fs, paths.archiveFile))
    /\ [][pc[P] = "get" =>
             \/ pc'[P] = "restat"
             \/ /\ pc'[P] = "exited"
                /\ hist'[P].result = "error downloading"
                /\ exitCode'[P] /= 0
                /\ ~Exists(fs', paths.archiveFile)]_vars

C24_Witness ==
    /\ pc[P] = "exited"
    /\ hist[P].nGet = 1
    /\ hist[P].bodyLen > 0 /\ hist[P].bodyLen /= loc[P].contentLength
    /\ hist[P].result = "error downloading"
    /\ ~Exists(fs, paths.archiveFile)
    /\ IsDirAt(fs, loc[P].root)

==========================================================================
